---- MODULE Spec2Model ----
(***************************************************************************)
(* Model of export_label.py: the text-dimension estimator with its three   *)
(* measurement strategies, the label sizer, and the interactive main flow  *)
(* with its two layer exports.                                             *)
(*                                                                         *)
(* Lengths are integers in micrometres (1 mm = 1000), so 0.87 and 1.4 are  *)
(* exact.  A string is a sequence of one-character strings.                *)
(***************************************************************************)
EXTENDS Integers, Sequences, FiniteSets, TLC

\* ---------------------------------------------------------------- bounds

MaxTextLen == 3
MaxMeshLines == 2

\* ------------------------------------------------------------- constants

font_size_default == 12
border_width == 2
min_padding == 4
min_width == 30
min_height == 15
magnet_inset == 10
magnet_diameter == 6

\* 0.87 mm per character and millimetre of font size, in micrometres.
CharRatio == 870
reference_size == 100

\* ----------------------------------------------------------- small helpers

Max2(a, b) == IF a >= b THEN a ELSE b

SetMax(S) == CHOOSE m \in S : \A x \in S : x <= m

SetMin(S) == CHOOSE m \in S : \A x \in S : m <= x

SeqsUpTo(S, n) == UNION {[1..k -> S] : k \in 0..n}

\* int(x) on a quotient a / b (b > 0): truncation toward zero.
TruncDiv(a, b) == IF a >= 0 THEN a \div b ELSE -((-a) \div b)

\* round(x) of a length in micrometres to whole millimetres, ties to the
\* even neighbour.
round(x) ==
    LET q == x \div 1000
        r == x % 1000
    IN  IF r < 500 THEN q
        ELSE IF r > 500 THEN q + 1
        ELSE IF q % 2 = 0 THEN q ELSE q + 1

\* ------------------------------------------------------------------ inputs

ASA == <<"A", "S", "A">>
HELLO == <<"H", "E", "L", "L", "O">>

Texts == SeqsUpTo({"A", " "}, MaxTextLen) \cup {ASA, HELLO}

FontSizes == {-3, 0, 1, 10, 12, 20, 50}

IconSizes == {10, 40}

\* One line of the mesh file the engine wrote.
\*   marker:  the line contains the word vertex
\*   nparts:  number of whitespace-separated parts
\*   numeric: parts 1 and 2 parse as floats, then x and y are their values
VertexLine(x, y) == [marker |-> TRUE, nparts |-> 4, numeric |-> TRUE, x |-> x, y |-> y]

MeshLines ==
    { VertexLine(0, 0), VertexLine(25300, 12000), VertexLine(-400, -2500),
      [marker |-> FALSE, nparts |-> 5, numeric |-> FALSE, x |-> 0, y |-> 0],
      [marker |-> TRUE, nparts |-> 1, numeric |-> FALSE, x |-> 0, y |-> 0],
      [marker |-> TRUE, nparts |-> 4, numeric |-> FALSE, x |-> 0, y |-> 0] }

Meshes == SeqsUpTo(MeshLines, MaxMeshLines)

\* What the font-metrics library measured: cap height of "H" at the
\* reference size, and the pixel box of the text (taken to be a real box).
CapHeights == {0, 72}
PixelBoxes == {[w |-> 7, h |-> 9], [w |-> 40, h |-> 16]}

NoDims == [some |-> FALSE, w |-> 0, h |-> 0]
Dims(w, h) == [some |-> TRUE, w |-> w, h |-> h]


\* ------------------------------------------------------------------- state

VARIABLES
    pc,            \* position in the run
    caller,        \* "size": calculate_optimal_label_size called directly; "main"
    text, font_size, use_icon, icon_size,
    font_path,     \* find_font found a font file
    openscad,      \* engine found by calculate_text_dimensions_openscad
    files,         \* temporary files of the measurement that exist
    scad_created,  \* the measurement created its .scad input
    mesh,          \* lines of the mesh file the engine wrote
    tried,         \* strategies attempted so far, in order
    res1, res2, res3,  \* what each strategy yielded
    dims, source,  \* pair returned by calculate_text_dimensions, and its strategy
    label,         \* result of calculate_optimal_label_size
    raised, raised_at,  \* exception that left the call unhandled, and where
    openscad_path, width, height, color1, color2,
    entered1, entered2, output_color1, output_color2,
    confirmed, export1, export2, success1, success2,
    exit_code, reason

estVars == <<text, font_size, use_icon, icon_size, font_path, openscad, files,
             scad_created, mesh, tried, res1, res2, res3, dims, source, label>>

mainVars == <<openscad_path, width, height, color1, color2, entered1, entered2,
              output_color1, output_color2, confirmed, export1, export2,
              success1, success2>>

ctlVars == <<pc, caller, raised, raised_at, exit_code, reason>>

vars == <<estVars, mainVars, ctlVars>>

NoLabel == [some |-> FALSE, label_width |-> 0, label_height |-> 0,
            text_width |-> 0, text_height |-> 0]

EstInit ==
    /\ font_path = FALSE /\ openscad = FALSE
    /\ files = {} /\ scad_created = FALSE /\ mesh = <<>>
    /\ tried = <<>>
    /\ res1 = NoDims /\ res2 = NoDims /\ res3 = NoDims
    /\ dims = NoDims /\ source = 0
    /\ label = NoLabel

MainInit ==
    /\ openscad_path = FALSE
    /\ width = 0 /\ height = 0
    /\ color1 = "" /\ color2 = ""
    /\ entered1 = <<>> /\ entered2 = <<>>
    /\ output_color1 = <<>> /\ output_color2 = <<>>
    /\ confirmed = FALSE
    /\ export1 = "none" /\ export2 = "none"
    /\ success1 = FALSE /\ success2 = FALSE

CtlInit ==
    /\ raised = "none" /\ raised_at = "none"
    /\ exit_code = -1 /\ reason = "running"

\* An exception nothing catches: a direct caller sees it raised; under
\* __main__ only KeyboardInterrupt is caught, so the interpreter prints the
\* traceback and exits with status 1.
Unhandled(exc, site) ==
    /\ raised' = exc
    /\ raised_at' = site
    /\ IF caller = "main"
       THEN pc' = "exited" /\ exit_code' = 1 /\ reason' = "unhandled_exception"
       ELSE pc' = "raised" /\ UNCHANGED <<exit_code, reason>>

Continue(next) ==
    /\ pc' = next
    /\ UNCHANGED <<raised, raised_at, exit_code, reason>>

\* ------------------------------------------------- pure parts of the code

\* Lines 172-176: the lines that yield a vertex, and whether float() raises.
IsVertex(l) == l.marker /\ l.nparts >= 4

ParseRaises(m) == \E i \in 1..Len(m) : IsVertex(m[i]) /\ ~m[i].numeric

\* Lines 168-192: bounding box of the vertices; no result without one.
BoundingBox(m) ==
    LET vs == {m[i] : i \in {j \in 1..Len(m) : IsVertex(m[j])}}
        xs == {v.x : v \in vs}
        ys == {v.y : v \in vs}
    IN  IF vs = {} THEN NoDims
        ELSE Dims(SetMax(xs) - SetMin(xs), SetMax(ys) - SetMin(ys))

\* Lines 213-214: pixel_size = int(font_size * reference_size / cap_height_px).
PixelSize(fs, cap) == TruncDiv(fs * reference_size, cap)

\* Lines 213-215: ZeroDivisionError on a cap height of 0, and the library
\* refuses a pixel size that is not positive.
PilRaises(fs, cap) == IF cap = 0 THEN TRUE ELSE PixelSize(fs, cap) <= 0

\* Lines 221-222: millimetres from pixels; the width is multiplied by 1.4.
PilDims(box, cap) ==
    Dims((box.w * cap * 1000 * 14) \div (reference_size * 10),
         (box.h * cap * 1000) \div reference_size)

\* The character heuristic without its 0.87 ratio.
HeuristicDimsNoRatio(t, fs) == Dims(Len(t) * fs * 1000, fs * 1000)

\* Lines 229-230: the character heuristic.
HeuristicDims(t, fs) == Dims(Len(t) * fs * CharRatio, fs * 1000)

\* The sizer with the border left out of both dimensions.
LabelSizeNoBorder(d, fs, icon, isz) ==
    LET padding == min_padding * 1000
        content_width == d.w + 2 * padding
                         + (IF icon THEN isz * 1000 + padding ELSE 0)
        content_height == Max2(fs, IF icon THEN isz ELSE 0) * 1000 + 2 * padding
        min_width_for_magnets == (2 * magnet_inset + magnet_diameter) * 1000
    IN  [some |-> TRUE,
         label_width |-> round(Max2(Max2(content_width, min_width_for_magnets),
                                    min_width * 1000)),
         label_height |-> round(Max2(content_height, min_height * 1000)),
         text_width |-> d.w, text_height |-> d.h]

\* The sizer with the magnet floor only, min_width and min_height forgotten.
LabelSizeNoFloor(d, fs, icon, isz) ==
    LET padding == min_padding * 1000
        border == border_width * 1000
        content_width == d.w + 2 * padding
                         + (IF icon THEN isz * 1000 + padding ELSE 0)
        content_height == Max2(fs, IF icon THEN isz ELSE 0) * 1000 + 2 * padding
        min_width_for_magnets == (2 * magnet_inset + magnet_diameter) * 1000
    IN  [some |-> TRUE,
         label_width |-> round(Max2(content_width + 2 * border, min_width_for_magnets)),
         label_height |-> round(content_height + 2 * border),
         text_width |-> d.w, text_height |-> d.h]

\* Lines 240-263: the label from the measured text box.
LabelSize(d, fs, icon, isz) ==
    LET padding == min_padding * 1000
        border == border_width * 1000
        content_width == d.w + 2 * padding
                         + (IF icon THEN isz * 1000 + padding ELSE 0)
        content_height == Max2(fs, IF icon THEN isz ELSE 0) * 1000 + 2 * padding
        label_width0 == content_width + 2 * border
        label_height0 == content_height + 2 * border
        min_width_for_magnets == (2 * magnet_inset + magnet_diameter) * 1000
        label_width1 == Max2(Max2(label_width0, min_width_for_magnets), min_width * 1000)
        label_height1 == Max2(label_height0, min_height * 1000)
    IN  [some |-> TRUE,
         label_width |-> round(label_width1),
         label_height |-> round(label_height1),
         text_width |-> d.w, text_height |-> d.h]

\* -------------------------------------------- estimator and sizer, by step

\* Line 236: find_font("Arial"), a path or None.
size_find_font ==
    /\ pc = "size_entry"
    /\ \E found \in BOOLEAN : font_path' = found
    /\ Continue("s1_find")
    /\ UNCHANGED <<text, font_size, use_icon, icon_size, openscad, files,
                   scad_created, mesh, tried, res1, res2, res3, dims, source, label>>
    /\ UNCHANGED <<mainVars, caller>>

\* Lines 202, 139-141: strategy 1 is called and looks for the engine.  The
\* version probe of find_openscad catches CalledProcessError and
\* FileNotFoundError only; any other OSError of the launch leaves it.
s1_find ==
    /\ pc = "s1_find"
    /\ tried' = Append(tried, 1)
    /\ \/ /\ openscad' = TRUE
          /\ Continue("s1_tmp")
          /\ UNCHANGED res1
       \/ /\ openscad' = FALSE
          /\ res1' = NoDims
          /\ Continue("s1_ret")
       \/ /\ Unhandled("OSError", "find_openscad")
          /\ UNCHANGED <<openscad, res1>>
    /\ UNCHANGED <<text, font_size, use_icon, icon_size, font_path, files,
                   scad_created, mesh, res2, res3, dims, source, label>>
    /\ UNCHANGED <<mainVars, caller>>

\* Lines 152-156: the temporary .scad file is written (delete=False).
s1_tmp ==
    /\ pc = "s1_tmp"
    /\ \/ /\ files' = files \cup {"scad"}
          /\ scad_created' = TRUE
          /\ Continue("s1_run")
          /\ UNCHANGED res1
       \/ /\ res1' = NoDims          \* except Exception, line 194
          /\ Continue("s1_ret")
          /\ UNCHANGED <<files, scad_created>>
    /\ UNCHANGED <<text, font_size, use_icon, icon_size, font_path, openscad,
                   mesh, tried, res2, res3, dims, source, label>>
    /\ UNCHANGED <<mainVars, caller>>

\* Lines 159-165: the engine runs, with a timeout of 30 s.
s1_run ==
    /\ pc = "s1_run"
    /\ \E wrote \in BOOLEAN :
         /\ files' = files \cup (IF wrote THEN {"stl"} ELSE {})
         /\ \/ \E m \in Meshes :            \* returncode 0 and the file is there
                 /\ wrote
                 /\ mesh' = m
                 /\ Continue("s1_parse")
                 /\ UNCHANGED res1
            \/ /\ ~wrote                      \* returncode 0, no file: line 165
               /\ res1' = NoDims
               /\ Continue("s1_ret")
               /\ UNCHANGED mesh
            \/ /\ res1' = NoDims              \* returncode # 0: line 165
               /\ Continue("s1_ret")
               /\ UNCHANGED mesh
            \/ /\ res1' = NoDims              \* TimeoutExpired: line 194
               /\ Continue("s1_ret")
               /\ UNCHANGED mesh
    /\ UNCHANGED <<text, font_size, use_icon, icon_size, font_path, openscad,
                   scad_created, tried, res2, res3, dims, source, label>>
    /\ UNCHANGED <<mainVars, caller>>

\* Lines 159, 194: the engine cannot be launched; subprocess.run raises.
s1_run_oserror ==
    /\ pc = "s1_run"
    /\ res1' = NoDims
    /\ Continue("s1_ret")
    /\ UNCHANGED <<text, font_size, use_icon, icon_size, font_path, openscad, files,
                   scad_created, mesh, tried, res2, res3, dims, source, label>>
    /\ UNCHANGED <<mainVars, caller>>

\* Lines 167-192: parse the mesh, unlink both files, return the box.
s1_parse ==
    /\ pc = "s1_parse"
    /\ IF ParseRaises(mesh)
       THEN /\ res1' = NoDims                \* ValueError: line 194
            /\ UNCHANGED files
       ELSE /\ files' = files \ {"scad", "stl"}
            /\ res1' = BoundingBox(mesh)
    /\ Continue("s1_ret")
    /\ UNCHANGED <<text, font_size, use_icon, icon_size, font_path, openscad,
                   scad_created, mesh, tried, res2, res3, dims, source, label>>
    /\ UNCHANGED <<mainVars, caller>>

\* The return of strategy 1 with its result never looked at.
s1_ret_ignored ==
    /\ pc = "s1_ret"
    /\ UNCHANGED <<dims, source>>
    /\ Continue("s2")
    /\ UNCHANGED <<text, font_size, use_icon, icon_size, font_path, openscad, files,
                   scad_created, mesh, tried, res1, res2, res3, label>>
    /\ UNCHANGED <<mainVars, caller>>

\* Lines 202-204: the pair of strategy 1 is returned if there is one.
s1_ret ==
    /\ pc = "s1_ret"
    /\ IF res1.some
       THEN dims' = res1 /\ source' = 1 /\ Continue("size_calc")
       ELSE UNCHANGED <<dims, source>> /\ Continue("s2")
    /\ UNCHANGED <<text, font_size, use_icon, icon_size, font_path, openscad, files,
                   scad_created, mesh, tried, res1, res2, res3, label>>
    /\ UNCHANGED <<mainVars, caller>>

\* Lines 207-226 with a font file: measure with the font-metrics library.
\* The library raises on a font it cannot load and on a pixel size <= 0; a
\* cap height of 0 raises ZeroDivisionError.  All are swallowed (line 225).
s2_measure ==
    /\ pc = "s2"
    /\ font_path
    /\ tried' = Append(tried, 2)
    /\ \/ \E cap \in CapHeights, box \in PixelBoxes :
            /\ ~PilRaises(font_size, cap)
            /\ res2' = PilDims(box, cap)
            /\ dims' = PilDims(box, cap)
            /\ source' = 2
            /\ Continue("size_calc")
       \/ \E cap \in CapHeights :
            /\ PilRaises(font_size, cap)
            /\ res2' = NoDims
            /\ Continue("s3")
            /\ UNCHANGED <<dims, source>>
       \/ /\ res2' = NoDims                  \* the font file cannot be loaded
          /\ Continue("s3")
          /\ UNCHANGED <<dims, source>>
    /\ UNCHANGED <<text, font_size, use_icon, icon_size, font_path, openscad, files,
                   scad_created, mesh, res1, res3, label>>
    /\ UNCHANGED <<mainVars, caller>>

\* Line 208 without a font file: strategy 2 is skipped.
s2_skip ==
    /\ pc = "s2"
    /\ ~font_path
    /\ Continue("s3")
    /\ UNCHANGED estVars
    /\ UNCHANGED <<mainVars, caller>>

\* Lines 228-231: the character heuristic, the last strategy.
s3 ==
    /\ pc = "s3"
    /\ tried' = Append(tried, 3)
    /\ res3' = HeuristicDims(text, font_size)
    /\ dims' = HeuristicDims(text, font_size)
    /\ source' = 3
    /\ Continue("size_calc")
    /\ UNCHANGED <<text, font_size, use_icon, icon_size, font_path, openscad, files,
                   scad_created, mesh, res1, res2, label>>
    /\ UNCHANGED <<mainVars, caller>>

\* Lines 237-263: the sizer turns the pair into the label size.
size_calc ==
    /\ pc = "size_calc"
    /\ label' = LabelSize(dims, font_size, use_icon, icon_size)
    /\ Continue(IF caller = "main" THEN "main_show_size" ELSE "size_done")
    /\ UNCHANGED <<text, font_size, use_icon, icon_size, font_path, openscad, files,
                   scad_created, mesh, tried, res1, res2, res3, dims, source>>
    /\ UNCHANGED <<mainVars, caller>>

SizeNext ==
    \/ size_find_font \/ s1_find \/ s1_tmp \/ s1_run \/ s1_run_oserror
    \/ s1_parse \/ s1_ret \/ s2_measure \/ s2_skip \/ s3 \/ size_calc

\* calculate_optimal_label_size called with any arguments.
InitSize ==
    /\ pc = "size_entry" /\ caller = "size"
    /\ text \in Texts /\ font_size \in FontSizes
    /\ use_icon \in BOOLEAN /\ icon_size \in IconSizes
    /\ EstInit /\ MainInit /\ CtlInit

SpecSize == InitSize /\ [][SizeNext]_vars

\* ------------------------------------------------- strings of the main flow

Digits == <<"0", "1", "2", "3", "4", "5", "6", "7", "8", "9">>

IsDigit(c) == \E d \in 1..10 : Digits[d] = c

DigitVal(c) == (CHOOSE d \in 1..10 : Digits[d] = c) - 1

\* int(s): an optional sign and decimal digits, ValueError otherwise.
IsIntLiteral(s) ==
    /\ s # <<>>
    /\ LET body == IF s[1] \in {"-", "+"} THEN Tail(s) ELSE s
       IN  body # <<>> /\ \A i \in 1..Len(body) : IsDigit(body[i])

RECURSIVE NatVal(_)
NatVal(s) ==
    IF s = <<>> THEN 0
    ELSE NatVal(SubSeq(s, 1, Len(s) - 1)) * 10 + DigitVal(s[Len(s)])

ParseInt(s) ==
    IF s[1] = "-" THEN -NatVal(Tail(s))
    ELSE IF s[1] = "+" THEN NatVal(Tail(s))
    ELSE NatVal(s)

\* str(n) of an integer.
RECURSIVE NatStr(_)
NatStr(n) ==
    IF n < 10 THEN <<Digits[n + 1]>>
    ELSE NatStr(n \div 10) \o <<Digits[(n % 10) + 1]>>

IntStr(n) == IF n < 0 THEN <<"-">> \o NatStr(-n) ELSE NatStr(n)

\* Prompt.ask(..., default=d): an empty answer gives the default.
Ask(answer, d) == IF answer = <<>> THEN d ELSE answer

\* Line 364: text.strip() is empty.
IsBlank(t) == \A i \in 1..Len(t) : t[i] = " "

\* Line 401: lower-case the text and replace what is not alphanumeric by "_".
Lower(c) ==
    CASE c = "A" -> "a" [] c = "S" -> "s" [] c = "H" -> "h"
      [] c = "E" -> "e" [] c = "L" -> "l" [] c = "O" -> "o"
      [] OTHER -> c

IsAlnum(c) == c \in {"a", "s", "h", "e", "l", "o"} \/ IsDigit(c)

safe_text(t) ==
    [i \in 1..Len(t) |-> IF IsAlnum(Lower(t[i])) THEN Lower(t[i]) ELSE "_"]

DotStl == <<".", "s", "t", "l">>

\* Lines 402-403: label_<safe_text>_color<n>.stl
default_name(t, n) ==
    <<"l", "a", "b", "e", "l", "_">> \o safe_text(t)
    \o <<"_", "c", "o", "l", "o", "r", n>> \o DotStl

EndsWith(s, suf) ==
    /\ Len(s) >= Len(suf)
    /\ SubSeq(s, Len(s) - Len(suf) + 1, Len(s)) = suf

\* The extension appended without looking at the name.
AlwaysAppendStl(name) == name \o DotStl

\* Lines 409-412: ".stl" is appended to a name that does not end in it.
EnsureStl(name) == IF EndsWith(name, DotStl) THEN name ELSE name \o DotStl

COLORS_DARK == <<"Black", "DimGray", "Gray", "Navy", "DarkRed", "DarkGreen",
                 "SaddleBrown", "Purple">>

COLORS_LIGHT == <<"White", "Yellow", "LightGray", "Cyan", "Lime", "Orange",
                  "Pink", "LightBlue">>

\* ------------------------------------------------- what the user may answer

TextAnswers == {<<>>, <<" ">>, <<"A", " ">>}

FontAnswers == {<<>>, <<"2", "0">>, <<"a">>}

SizeAnswers == {<<>>, <<"4", "0">>, <<"x">>}

ColorAnswers == {<<>>, <<"2">>, <<"9">>, <<"x">>}

MaxStemLen == 1

NameAnswers ==
    {stem \o suf : stem \in SeqsUpTo({"a"}, MaxStemLen),
                   suf \in {<<>>, DotStl, <<".", "s", "t">>, <<"s", "t", "l">>,
                            DotStl \o <<"x">>}}

\* ------------------------------------------------------ main flow, by step

Exit(code, why) ==
    /\ pc' = "exited"
    /\ exit_code' = code
    /\ reason' = why
    /\ UNCHANGED <<raised, raised_at>>

\* Lines 350-354: the engine is a prerequisite.
main_find_openscad ==
    /\ pc = "main_start"
    /\ \/ /\ openscad_path' = TRUE
          /\ Continue("main_check_scad")
       \/ /\ Exit(1, "engine_not_found")
          /\ UNCHANGED openscad_path
       \/ /\ Unhandled("OSError", "find_openscad")
          /\ UNCHANGED openscad_path
    /\ UNCHANGED <<width, height, color1, color2, entered1, entered2,
                   output_color1, output_color2, confirmed, export1, export2,
                   success1, success2>>
    /\ UNCHANGED <<estVars, caller>>

\* Lines 356-358: so is the geometry description file.
main_check_scad ==
    /\ pc = "main_check_scad"
    /\ \/ Continue("main_ask_text")
       \/ Exit(1, "scad_not_found")
    /\ UNCHANGED <<estVars, mainVars, caller>>

\* Lines 362-366: the label text, which may not be blank.
main_ask_text ==
    /\ pc = "main_ask_text"
    /\ \E answer \in TextAnswers :
         /\ text' = Ask(answer, ASA)
         /\ IF IsBlank(Ask(answer, ASA))
            THEN Exit(1, "empty_text")
            ELSE Continue("main_ask_font")
    /\ UNCHANGED <<font_size, use_icon, icon_size, font_path, openscad, files,
                   scad_created, mesh, tried, res1, res2, res3, dims, source, label>>
    /\ UNCHANGED <<mainVars, caller>>

\* Lines 371, 376: the font size is parsed with int(); then the sizer is called.
main_ask_font ==
    /\ pc = "main_ask_font"
    /\ \E answer \in FontAnswers :
         LET given == Ask(answer, IntStr(font_size_default))
         IN  IF IsIntLiteral(given)
             THEN /\ font_size' = ParseInt(given)
                  /\ Continue("size_entry")
             ELSE /\ Unhandled("ValueError", "int")
                  /\ UNCHANGED font_size
    /\ UNCHANGED <<text, use_icon, icon_size, font_path, openscad, files,
                   scad_created, mesh, tried, res1, res2, res3, dims, source, label>>
    /\ UNCHANGED <<mainVars, caller>>

\* Lines 376-386: the sizer has returned, its locals are gone; the user keeps
\* the recommended size or types another one.
main_show_size ==
    /\ pc = "main_show_size"
    /\ \/ /\ width' = label.label_width
          /\ height' = label.label_height
          /\ Continue("main_color1")
       \/ \E aw \in SizeAnswers, ah \in SizeAnswers :
            LET gw == Ask(aw, IntStr(label.label_width))
                gh == Ask(ah, IntStr(label.label_height))
            IN  IF IsIntLiteral(gw) /\ IsIntLiteral(gh)
                THEN /\ width' = ParseInt(gw)
                     /\ height' = ParseInt(gh)
                     /\ Continue("main_color1")
                ELSE /\ Unhandled("ValueError", "int")
                     /\ UNCHANGED <<width, height>>
    /\ font_path' = FALSE /\ openscad' = FALSE /\ scad_created' = FALSE
    /\ mesh' = <<>> /\ tried' = <<>>
    /\ res1' = NoDims /\ res2' = NoDims /\ res3' = NoDims
    /\ dims' = NoDims /\ source' = 0
    /\ UNCHANGED <<text, font_size, use_icon, icon_size, files, label>>
    /\ UNCHANGED <<openscad_path, color1, color2, entered1, entered2,
                   output_color1, output_color2, confirmed, export1, export2,
                   success1, success2, caller>>

\* Lines 272-283: one round of select_color; a wrong answer asks again.
Selected(answer, colors) ==
    LET choice == Ask(answer, <<"1">>)
    IN  IF IsIntLiteral(choice) /\ ParseInt(choice) - 1 \in 0..(Len(colors) - 1)
        THEN colors[ParseInt(choice)]
        ELSE ""

\* Line 391: the foreground colour.
main_color1 ==
    /\ pc = "main_color1"
    /\ \E answer \in ColorAnswers :
         IF Selected(answer, COLORS_DARK) # ""
         THEN /\ color1' = Selected(answer, COLORS_DARK)
              /\ Continue("main_color2")
         ELSE /\ UNCHANGED color1
              /\ Continue("main_color1")
    /\ UNCHANGED <<openscad_path, width, height, color2, entered1, entered2,
                   output_color1, output_color2, confirmed, export1, export2,
                   success1, success2>>
    /\ UNCHANGED <<estVars, caller>>

\* Line 396: the background colour.
main_color2 ==
    /\ pc = "main_color2"
    /\ \E answer \in ColorAnswers :
         IF Selected(answer, COLORS_LIGHT) # ""
         THEN /\ color2' = Selected(answer, COLORS_LIGHT)
              /\ Continue("main_filenames")
         ELSE /\ UNCHANGED color2
              /\ Continue("main_color2")
    /\ UNCHANGED <<openscad_path, width, height, color1, entered1, entered2,
                   output_color1, output_color2, confirmed, export1, export2,
                   success1, success2>>
    /\ UNCHANGED <<estVars, caller>>

\* Lines 401-412: the two output names, each with its extension ensured.
main_filenames ==
    /\ pc = "main_filenames"
    /\ \E a1 \in NameAnswers, a2 \in NameAnswers :
         /\ entered1' = Ask(a1, default_name(text, "1"))
         /\ entered2' = Ask(a2, default_name(text, "2"))
         /\ output_color1' = EnsureStl(Ask(a1, default_name(text, "1")))
         /\ output_color2' = EnsureStl(Ask(a2, default_name(text, "2")))
    /\ Continue("main_confirm")
    /\ UNCHANGED <<openscad_path, width, height, color1, color2, confirmed,
                   export1, export2, success1, success2>>
    /\ UNCHANGED <<estVars, caller>>

\* Lines 431-436: the summary, then the last question.
main_confirm ==
    /\ pc = "main_confirm"
    /\ \/ /\ confirmed' = TRUE
          /\ Continue("main_export1")
       \/ /\ Exit(0, "declined")
          /\ UNCHANGED confirmed
    /\ UNCHANGED <<openscad_path, width, height, color1, color2, entered1, entered2,
                   output_color1, output_color2, export1, export2, success1, success2>>
    /\ UNCHANGED <<estVars, caller>>

\* Lines 310-336: what one call of export_stl can do.  subprocess.run is not
\* guarded: an engine that cannot be launched raises OSError out of it.
ExportOutcomes == {"ok", "nonzero", "nofile", "oserror"}

\* Line 442: the color1 layer.
main_export1 ==
    /\ pc = "main_export1"
    /\ \E o \in ExportOutcomes :
         /\ export1' = o
         /\ IF o = "oserror"
            THEN Unhandled("OSError", "export_stl") /\ UNCHANGED success1
            ELSE success1' = (o = "ok") /\ Continue("main_export2")
    /\ UNCHANGED <<openscad_path, width, height, color1, color2, entered1, entered2,
                   output_color1, output_color2, confirmed, export2, success2>>
    /\ UNCHANGED <<estVars, caller>>

\* Line 443: the color2 layer.
main_export2 ==
    /\ pc = "main_export2"
    /\ \E o \in ExportOutcomes :
         /\ export2' = o
         /\ IF o = "oserror"
            THEN Unhandled("OSError", "export_stl") /\ UNCHANGED success2
            ELSE success2' = (o = "ok") /\ Continue("main_report")
    /\ UNCHANGED <<openscad_path, width, height, color1, color2, entered1, entered2,
                   output_color1, output_color2, confirmed, export1, success1>>
    /\ UNCHANGED <<estVars, caller>>

\* The report failing only when both exports failed.
main_report_both ==
    /\ pc = "main_report"
    /\ IF success1 \/ success2
       THEN Exit(0, "success")
       ELSE Exit(1, "export_failed")
    /\ UNCHANGED <<estVars, mainVars, caller>>

\* Lines 445-458: main returns after two good exports, else sys.exit(1).
main_report ==
    /\ pc = "main_report"
    /\ IF success1 /\ success2
       THEN Exit(0, "success")
       ELSE Exit(1, "export_failed")
    /\ UNCHANGED <<estVars, mainVars, caller>>

\* Lines 462-466: KeyboardInterrupt, wherever main is, ends the run with 0.
main_interrupt ==
    /\ caller = "main"
    /\ pc # "exited"
    /\ Exit(0, "interrupted")
    /\ UNCHANGED <<estVars, mainVars, caller>>

MainNext ==
    \/ main_find_openscad \/ main_check_scad \/ main_ask_text \/ main_ask_font
    \/ main_show_size \/ main_color1 \/ main_color2 \/ main_filenames
    \/ main_confirm \/ main_export1 \/ main_export2 \/ main_report
    \/ main_interrupt

Next == MainNext \/ SizeNext

\* One run of the tool.
Init ==
    /\ pc = "main_start" /\ caller = "main"
    /\ text = <<>> /\ font_size = font_size_default
    /\ use_icon = FALSE /\ icon_size = 10
    /\ EstInit /\ MainInit /\ CtlInit

Spec == Init /\ [][Next]_vars

\* ------------------------------------------------ claims on the estimator

\* Strategy 1 has returned to calculate_text_dimensions.
S1Returned == pc \in {"s1_ret", "s2", "s3", "size_calc", "size_done", "main_show_size"}

\* C1: when a call of calculate_text_dimensions_openscad that created its
\* temporary .scad file returns, neither the .scad nor the .stl file exists
\* any more, whatever the exit path.
C1_TempFilesRemoved == (S1Returned /\ scad_created) => files = {}

\* C2: the strategies are tried in the order 1, 2, 3; strategy 2 is
\* attempted only when strategy 1 yielded nothing, strategy 3 only when
\* strategy 2 yielded nothing too, and the pair returned is that of the first
\* strategy that yielded one.
C2_StrategyOrder ==
    /\ tried \in {<<>>, <<1>>, <<1, 2>>, <<1, 3>>, <<1, 2, 3>>}
    /\ (\E i \in 1..Len(tried) : tried[i] = 2) => (S1Returned /\ ~res1.some)
    /\ (\E i \in 1..Len(tried) : tried[i] = 3) => (~res1.some /\ ~res2.some)
    /\ res2.some => ~res1.some
    /\ res3.some => (~res1.some /\ ~res2.some)
    /\ dims.some =>
         /\ source \in 1..3
         /\ source = tried[Len(tried)]
         /\ dims = (IF res1.some THEN res1 ELSE IF res2.some THEN res2 ELSE res3)
         /\ source = (IF res1.some THEN 1 ELSE IF res2.some THEN 2 ELSE 3)

C2_Witness ==
    /\ pc = "size_done"
    /\ tried = <<1, 2, 3>>
    /\ scad_created /\ font_path
    /\ source = 3 /\ dims = res3

\* C3: the pair calculate_text_dimensions returns is strictly positive in
\* both numbers, for every text and font size and whichever strategy
\* produced it.
C3_PositivePair ==
    (pc \in {"size_calc", "size_done"}) => (dims.some /\ dims.w > 0 /\ dims.h > 0)

\* C4: for text "ASA", font size 12, no icon and strategies 1 and 2 without
\* a result, the label is 30 wide and 15 high.
C4_AsaIsFloorSized ==
    (pc = "size_done" /\ text = ASA /\ font_size = 12 /\ ~use_icon /\ source = 3)
        => (label.label_width = 30 /\ label.label_height = 15)

\* C4 as amended: for text "ASA", font size 12, no icon and strategies 1
\* and 2 without a result, the text is 31.32 wide, the label is 43 wide
\* (31.32 + 8 + 4 = 43.32, above both floors) and 24 high (12 + 8 + 4).
C4_AsaLabelSize ==
    (pc = "size_done" /\ text = ASA /\ font_size = 12 /\ ~use_icon /\ source = 3)
        => /\ label.text_width = 31320
           /\ label.label_width = 43
           /\ label.label_height = 24

C4_Witness ==
    /\ pc = "size_done" /\ text = ASA /\ font_size = 12 /\ ~use_icon
    /\ source = 3 /\ ~openscad /\ ~font_path
    /\ label.some

\* C5: when strategy 1 yields nothing and there is no font file, without an
\* icon the text box is len(text) * font_size * 0.87 by font_size, the label
\* width is round(max(text_width + 2 * min_padding + 2 * border_width,
\* 2 * magnet_inset + magnet_diameter, min_width)) and the label height is
\* round(max(font_size + 2 * min_padding + 2 * border_width, min_height));
\* "HELLO" at font size 20 gives 87.0, 99 and 32.
C5_HeuristicLabel ==
    (pc = "size_done" /\ ~use_icon /\ ~res1.some /\ ~font_path) =>
        LET tw == Len(text) * font_size * 870
            w0 == tw + (2 * min_padding + 2 * border_width) * 1000
            h0 == (font_size + 2 * min_padding + 2 * border_width) * 1000
            wmax == SetMax({w0, (2 * magnet_inset + magnet_diameter) * 1000,
                            min_width * 1000})
            hmax == SetMax({h0, min_height * 1000})
        IN  /\ label.text_width = tw
            /\ label.text_height = font_size * 1000
            /\ label.label_width = round(wmax)
            /\ label.label_height = round(hmax)
            /\ (text = HELLO /\ font_size = 20) =>
                  /\ label.text_width = 87000
                  /\ label.label_width = 99
                  /\ label.label_height = 32

C5_Witness ==
    /\ pc = "size_done" /\ ~use_icon /\ ~res1.some /\ ~font_path
    /\ text = HELLO /\ font_size = 20
    /\ label.label_width = 99

\* C6: whatever the text, font size, icon and measuring strategy, the
\* rounded label is at least max(2 * magnet_inset + magnet_diameter,
\* min_width) = 30 wide and min_height = 15 high.
C6_Floors ==
    label.some =>
        /\ Max2(2 * magnet_inset + magnet_diameter, min_width) = 30
        /\ label.label_width >= Max2(2 * magnet_inset + magnet_diameter, min_width)
        /\ label.label_height >= min_height

C6_Witness ==
    /\ pc = "size_done"
    /\ source = 1 /\ use_icon
    /\ label.label_width = 30 /\ label.label_height > 15

\* ------------------------------------------------- claims on the main flow

\* C7: when the engine exits non-zero or writes no file for the color1
\* layer, export_stl returns failure without raising, the color2 export is
\* attempted all the same, and the run ends with exit code 1 whenever one of
\* the two exports failed.
C7_IndependentExports ==
    /\ export1 \in {"nonzero", "nofile"} =>
         /\ ~success1
         /\ pc \in {"main_export2", "main_report", "exited"}
         /\ (raised # "none") => export2 = "oserror"
         /\ (pc = "exited" /\ reason # "interrupted") =>
               (export2 # "none" /\ exit_code = 1)
    /\ (pc = "exited" /\ reason \in {"success", "export_failed"}) =>
         /\ export1 # "none" /\ export2 # "none"
         /\ success1 = (export1 = "ok")
         /\ success2 = (export2 = "ok")
         /\ (exit_code = 1) = (~success1 \/ ~success2)
         /\ (exit_code = 0) = (success1 /\ success2)

C7_Witness ==
    /\ pc = "exited" /\ confirmed
    /\ export1 = "nonzero" /\ ~success1
    /\ export2 = "ok" /\ success2
    /\ raised = "none"
    /\ exit_code = 1

\* C8: no error of an external-process invocation (the engine lookup with
\* its version probe, the measurement render, the two exports) leaves its
\* call as an unhandled exception.
C8_ProcessErrorsCaught ==
    ~(raised # "none" /\ raised_at \in {"find_openscad", "export_stl"})

\* C9: a run ends with exit code 0 after two good exports, a declined
\* export or an interrupt, and with exit code 1 when the engine or the
\* geometry file is missing, the text is empty or an export failed; it
\* ends in no other way.
C9_ExitCodes ==
    pc = "exited" =>
        \/ exit_code = 0 /\ reason \in {"success", "declined", "interrupted"}
        \/ exit_code = 1 /\ reason \in {"engine_not_found", "scad_not_found",
                                        "empty_text", "export_failed"}

\* The names have been asked for and normalised.
Named == pc \in {"main_confirm", "main_export1", "main_export2", "main_report"}

StlNormalised(given, used) ==
    /\ EndsWith(used, DotStl)
    /\ EndsWith(given, DotStl) => used = given
    /\ ~EndsWith(given, DotStl) =>
         (used = given \o DotStl /\ ~EndsWith(given \o DotStl, DotStl \o DotStl))
    /\ EnsureStl(used) = used

\* C10: each of the two file names used for the export ends in ".stl": a
\* name the user gave without it has it appended once, a name that ends in
\* it is used as it is, and normalising again changes nothing.
C10_StlExtension ==
    Named => /\ StlNormalised(entered1, output_color1)
             /\ StlNormalised(entered2, output_color2)

C10_Witness ==
    /\ Named
    /\ entered1 = <<"a">> \o DotStl /\ output_color1 = entered1
    /\ entered2 = <<"a", ".", "s", "t">>
    /\ output_color2 = <<"a", ".", "s", "t", ".", "s", "t", "l">>

====
